---- MODULE Spec2Model ----
(***************************************************************************)
(* The generation orchestrator of src/app/(main)/layout.tsx (component     *)
(* Home): the session state held in React state hooks, the four async      *)
(* handlers (generateAppIdea, refinePrompt, createApp, handleChatMessage), *)
(* handleLoadGeneration and the view callbacks that write session state.   *)
(*                                                                         *)
(* An async handler runs synchronously up to its next await; every such    *)
(* segment is one action.  A handler that is suspended at an await is a    *)
(* "run": a record in procs holding its position (pc) and the values its    *)
(* closure captured when it was called.                                    *)
(*                                                                         *)
(* Text is a sequence of one-character strings.                            *)
(***************************************************************************)
EXTENDS Integers, Sequences, FiniteSets, Bags, TLC

VARIABLES
    status,                 \* useState<Status>
    prompt,                 \* useState("")
    generatedCode,          \* useState("")
    tokenAnalytics,         \* useState<CumulativeTokenAnalytics | null>
    showAnalytics,          \* useState(false)
    model,                  \* useState(first enabled model)
    messages,               \* conversation history
    currentGeneratedAppId,  \* useState<string | null>
    chatVisible,            \* useState(false)
    refinementMessages,     \* refinement history
    aiSettings,             \* useState<AISettings>
    procs,                  \* the suspended handler runs, a bag of run records
    lastEvent,              \* observation: the handler segment that ran last
    merged                  \* observation: exchanges merged since tokenAnalytics was null

vars == <<status, prompt, generatedCode, tokenAnalytics, showAnalytics, model,
          messages, currentGeneratedAppId, chatVisible, refinementMessages,
          aiSettings, procs, lastEvent, merged>>

(***************************************************************************)
(* Bounds of the model.                                                    *)
(***************************************************************************)
MaxChunks == 1
MaxRefinements == 1
MaxMerges == 2
MaxRefineCalls == 2

\* null of a string-valued state and of the analytics record
Null == "null"
NullAnalytics == [isNull |-> TRUE]

(***************************************************************************)
(* Text helpers.                                                           *)
(***************************************************************************)
\* one-character strings; the backtick is written "BT"
BT == "BT"
NL == "\n"
SP == " "
Fence == <<BT, BT, BT>>
WhiteSpace == {SP, NL, "\t", "\r"}

LangTags ==
    { <<"t","y","p","e","s","c","r","i","p","t">>,
      <<"j","a","v","a","s","c","r","i","p","t">>,
      <<"t","s","x">> }

IsPrefixAt(s, i, p) ==
    /\ i + Len(p) - 1 <= Len(s)
    /\ \A k \in 1..Len(p) : s[i + k - 1] = p[k]

\* Length of a match of the opening fence (three backticks, an optional language
\* tag, a newline) at position i, 0 if none.
OpenLen(s, i) ==
    LET cands == { l \in LangTags \cup {<<>>} : IsPrefixAt(s, i, Fence \o l \o <<NL>>) }
    IN  IF cands = {} THEN 0
        ELSE Len(Fence) + Len(CHOOSE l \in cands : TRUE) + 1

\* Position of the first closing fence at or after j, 0 if none (the lazy
\* group stops at the first one).
CloseAt(s, j) ==
    LET ks == { k \in j..Len(s) : IsPrefixAt(s, k, Fence) }
    IN  IF ks = {} THEN 0 ELSE CHOOSE k \in ks : \A k2 \in ks : k <= k2

\* code.replace(/FENCE(?:typescript|javascript|tsx)?\n([\s\S]*?)FENCE/g, "$1"):
\* from[i] is the result for the text from position i on.  A match at i is
\* replaced by its group and the scan goes on behind it; without one the
\* character at i is kept.
ReplaceFences(s) ==
    LET from[i \in 1..(Len(s) + 1)] ==
            IF i > Len(s) THEN <<>>
            ELSE LET o == OpenLen(s, i)
                     c == IF o = 0 THEN 0 ELSE CloseAt(s, i + o)
                 IN  IF o > 0 /\ c > 0
                     THEN SubSeq(s, i + o, c - 1) \o from[c + Len(Fence)]
                     ELSE <<s[i]>> \o from[i + 1]
    IN  from[1]

\* String.prototype.trim
trim(s) ==
    LET kept == { i \in 1..Len(s) : s[i] \notin WhiteSpace }
    IN  IF kept = {} THEN <<>>
        ELSE SubSeq(s, CHOOSE i \in kept : \A j \in kept : i <= j,
                       CHOOSE i \in kept : \A j \in kept : j <= i)

\* code.replace(...).trim(); the replaced text is bound as a value, so that it
\* is computed once
removeCodeFormatting(code) ==
    CHOOSE stripped \in { trim(replaced) : replaced \in {ReplaceFences(code)} } : TRUE

\* new TextDecoder().decode(value): a chunk is a sequence of bytes; an ASCII byte
\* is written as its character, "C3" "A9" are the two bytes of U+00E9.  Every
\* call decodes its chunk alone, so a sequence cut by the chunk boundary
\* decodes to U+FFFD on both sides.
Replacement == "U+FFFD"
decode(value) ==
    LET n == Len(value)
        char(i) ==
            IF value[i] = "C3"
            THEN IF i < n /\ value[i + 1] = "A9" THEN "U+00E9" ELSE Replacement
            ELSE IF value[i] = "A9"
                 THEN IF i > 1 /\ value[i - 1] = "C3" THEN "" ELSE Replacement
                 ELSE value[i]
    IN  SelectSeq([i \in 1..n |-> char(i)], LAMBDA ch : ch # "")

(***************************************************************************)
(* Providers and settings.                                                 *)
(***************************************************************************)
AI_PROVIDERS ==
    [ anthropic |-> {"claude"}, openai |-> {"gpt"}, google |-> {"gemini"},
      deepseek |-> {"deepseek-chat"}, mistral |-> {"mistral-large"} ]

Providers == DOMAIN AI_PROVIDERS
Models == UNION { AI_PROVIDERS[p] : p \in Providers }
initialProvider == "anthropic"
InitialModel == "claude"

currentProvider(m) ==
    IF \E p \in Providers : m \in AI_PROVIDERS[p]
    THEN CHOOSE p \in Providers : m \in AI_PROVIDERS[p]
    ELSE initialProvider

\* Variant: a provider that is none of the four named gets openai's ceiling.
getDefaultSettingsOtherCeiling(provider) ==
    [ temperature      |-> IF provider = "deepseek" THEN 0 ELSE 7,
      maxTokens        |-> IF provider = "anthropic" THEN 200000
                           ELSE IF provider = "google" THEN 1000000
                           ELSE IF provider = "deepseek" THEN 32768
                           ELSE 64000,
      topP             |-> 1,
      streamOutput     |-> TRUE,
      frequencyPenalty |-> 0,
      presencePenalty  |-> 0 ]

\* temperature is kept in tenths (7 is 0.7)
getDefaultSettings(provider) ==
    [ temperature      |-> IF provider = "deepseek" THEN 0 ELSE 7,
      maxTokens        |-> IF provider = "anthropic" THEN 200000
                           ELSE IF provider = "openai" THEN 64000
                           ELSE IF provider = "google" THEN 1000000
                           ELSE IF provider = "deepseek" THEN 32768
                           ELSE 200000,
      topP             |-> 1,
      streamOutput     |-> TRUE,
      frequencyPenalty |-> 0,
      presencePenalty  |-> 0 ]

\* Variant: the effect replaces the settings by the provider's defaults.
ProviderEffectResetsAll(prev, provider) ==
    getDefaultSettings(provider)

\* the effect on [currentProvider]
ProviderEffect(prev, provider) ==
    [ prev EXCEPT
        !.temperature = IF provider = "deepseek" THEN 0 ELSE prev.temperature,
        !.maxTokens   = IF provider = "anthropic" THEN 200000
                        ELSE IF provider = "openai" THEN 64000
                        ELSE IF provider = "google" THEN 1000000
                        ELSE IF provider = "deepseek" THEN 32768
                        ELSE prev.maxTokens ]

(***************************************************************************)
(* Token analytics.                                                        *)
(***************************************************************************)
\* Variant: the quotient cut after two decimals instead of rounded.
toFixed2PercentTruncated(num, den) ==
    IF den = 0 THEN -1
    ELSE (num * 10000) \div den

\* ((num / den) * 100).toFixed(2) for non-negative integers, as the integer number
\* of hundredths (6667 is "66.67"): the nearest one, the larger of two equally
\* near.  A zero den gives "NaN" or "Infinity", written -1.
toFixed2Percent(num, den) ==
    IF den = 0 THEN -1
    ELSE (2 * num * 10000 + den) \div (2 * den)

\* Variant: the cumulative total kept as a running sum of the exchanges' own
\* totalTokens.
mergeAnalyticsAddsTotals(prevAnalytics, newAnalytics) ==
    LET first == prevAnalytics = NullAnalytics
        cumulativePromptTokens ==
            IF first THEN newAnalytics.promptTokens
            ELSE prevAnalytics.cumulativePromptTokens + newAnalytics.promptTokens
        cumulativeResponseTokens ==
            IF first THEN newAnalytics.responseTokens
            ELSE prevAnalytics.cumulativeResponseTokens + newAnalytics.responseTokens
        cumulativeTotalTokens ==
            IF first THEN newAnalytics.totalTokens
            ELSE prevAnalytics.cumulativeTotalTokens + newAnalytics.totalTokens
    IN  [ modelName                |-> newAnalytics.modelName,
          provider                 |-> newAnalytics.provider,
          promptTokens             |-> newAnalytics.promptTokens,
          responseTokens           |-> newAnalytics.responseTokens,
          totalTokens              |-> newAnalytics.totalTokens,
          maxTokens                |-> newAnalytics.maxTokens,
          cumulativePromptTokens   |-> cumulativePromptTokens,
          cumulativeResponseTokens |-> cumulativeResponseTokens,
          cumulativeTotalTokens    |-> cumulativeTotalTokens,
          utilizationPercentage    |->
              toFixed2Percent(cumulativeTotalTokens, newAnalytics.maxTokens) ]

\* Variant: the utilization taken against the previous value's maxTokens.
mergeAnalyticsPreviousMax(prevAnalytics, newAnalytics) ==
    IF prevAnalytics = NullAnalytics
    THEN mergeAnalyticsAddsTotals(prevAnalytics, newAnalytics)
    ELSE LET cumulativePromptTokens ==
                 prevAnalytics.cumulativePromptTokens + newAnalytics.promptTokens
             cumulativeResponseTokens ==
                 prevAnalytics.cumulativeResponseTokens + newAnalytics.responseTokens
             cumulativeTotalTokens ==
                 cumulativePromptTokens + cumulativeResponseTokens
         IN  [ modelName                |-> newAnalytics.modelName,
               provider                 |-> newAnalytics.provider,
               promptTokens             |-> newAnalytics.promptTokens,
               responseTokens           |-> newAnalytics.responseTokens,
               totalTokens              |-> newAnalytics.totalTokens,
               maxTokens                |-> newAnalytics.maxTokens,
               cumulativePromptTokens   |-> cumulativePromptTokens,
               cumulativeResponseTokens |-> cumulativeResponseTokens,
               cumulativeTotalTokens    |-> cumulativeTotalTokens,
               utilizationPercentage    |->
                   toFixed2Percent(cumulativeTotalTokens, prevAnalytics.maxTokens) ]

mergeAnalytics(prevAnalytics, newAnalytics) ==
    IF prevAnalytics = NullAnalytics
    THEN [ modelName                |-> newAnalytics.modelName,
           provider                 |-> newAnalytics.provider,
           promptTokens             |-> newAnalytics.promptTokens,
           responseTokens           |-> newAnalytics.responseTokens,
           totalTokens              |-> newAnalytics.totalTokens,
           maxTokens                |-> newAnalytics.maxTokens,
           cumulativePromptTokens   |-> newAnalytics.promptTokens,
           cumulativeResponseTokens |-> newAnalytics.responseTokens,
           cumulativeTotalTokens    |-> newAnalytics.totalTokens,
           utilizationPercentage    |->
               toFixed2Percent(newAnalytics.totalTokens, newAnalytics.maxTokens) ]
    ELSE LET cumulativePromptTokens ==
                 prevAnalytics.cumulativePromptTokens + newAnalytics.promptTokens
             cumulativeResponseTokens ==
                 prevAnalytics.cumulativeResponseTokens + newAnalytics.responseTokens
             cumulativeTotalTokens ==
                 cumulativePromptTokens + cumulativeResponseTokens
         IN  [ modelName                |-> newAnalytics.modelName,
               provider                 |-> newAnalytics.provider,
               promptTokens             |-> newAnalytics.promptTokens,
               responseTokens           |-> newAnalytics.responseTokens,
               totalTokens              |-> newAnalytics.totalTokens,
               maxTokens                |-> newAnalytics.maxTokens,
               cumulativePromptTokens   |-> cumulativePromptTokens,
               cumulativeResponseTokens |-> cumulativeResponseTokens,
               cumulativeTotalTokens    |-> cumulativeTotalTokens,
               utilizationPercentage    |->
                   toFixed2Percent(cumulativeTotalTokens, newAnalytics.maxTokens) ]

\* setTokenAnalytics(prev => ...); setShowAnalytics(true)
updateTokenAnalytics(newAnalytics) ==
    /\ tokenAnalytics' = mergeAnalytics(tokenAnalytics, newAnalytics)
    /\ showAnalytics' = TRUE
    /\ merged' = Append(merged, newAnalytics)

(***************************************************************************)
(* The environment: what the user types and what the endpoints answer.     *)
(***************************************************************************)
UserPrompts == { <<>>, <<"i">> }
ChatInputs == { <<"m">> }
TextChunks == { <<SP, "i">> }
CodeChunks == { Fence \o <<NL, "a">> \o Fence }
StoreIds == { "g1" }
AnalyticsReplies ==
    { [ modelName |-> "claude", provider |-> "anthropic", promptTokens |-> 1,
        responseTokens |-> 1, totalTokens |-> 2, maxTokens |-> 3,
        utilizationPercentage |-> 6667 ] }
SavedGenerationSet ==
    { [ id |-> "g1", code |-> <<"s">>, model |-> InitialModel, prompt |-> <<"i">> ] }

UserMessage(content) == [role |-> "user", content |-> content]

(***************************************************************************)
(* Runs.                                                                   *)
(***************************************************************************)
NoRun ==
    [ kind |-> "none", pc |-> "idle", receivedData |-> <<>>, reads |-> 0,
      prompt |-> <<>>, model |-> "", updatedMessages |-> <<>>, message |-> <<>>,
      generatedCode |-> <<>>, currentGeneratedAppId |-> Null ]

Runs == BagToSet(procs)

\* the call suspends at its first await
Spawn(run) ==
    procs' = procs (+) SetToBag({run})

\* the run r resumes and suspends again as run
Resume(r, run) == procs' = (procs (-) SetToBag({r})) (+) SetToBag({run})

\* the run r returns
Finish(r) == procs' = procs (-) SetToBag({r})

\* the refinement calls that are suspended
PendingRefinements ==
    LET chats == { r \in Runs : r.kind = "handleChatMessage" }
    IN  BagCardinality([r \in chats |-> procs[r]])

\* a call that would be accepted is taken only while fewer than max refinements
\* are suspended or committed
RefinementsLeft(max) ==
    (generatedCode # <<>> /\ status = "created")
    => PendingRefinements + Len(refinementMessages) < max

Event(op, step) == lastEvent' = [op |-> op, step |-> step]

loading == status # "initial" /\ status # "created"

Init ==
    /\ status = "initial"
    /\ prompt = <<>>
    /\ generatedCode = <<>>
    /\ tokenAnalytics = NullAnalytics
    /\ showAnalytics = FALSE
    /\ model = InitialModel
    /\ messages = <<>>
    /\ currentGeneratedAppId = Null
    /\ chatVisible = FALSE
    /\ refinementMessages = <<>>
    /\ aiSettings = getDefaultSettings(initialProvider)
    /\ procs = EmptyBag
    /\ lastEvent = [op |-> "mount", step |-> "done"]
    /\ merged = <<>>

(***************************************************************************)
(* createApp                                                               *)
(***************************************************************************)
\* Variant: the guard without the status test.
createAppGuardPromptOnly == prompt # <<>>

createAppGuard == prompt # <<>> /\ status = "initial"

\* the call up to the await of the generation request
\* Variant: an accepted call that leaves the analytics panel as it is.
createAppKeepsPanel ==
    IF ~createAppGuard
    THEN /\ Event("createApp", "rejected")
         /\ UNCHANGED <<status, prompt, generatedCode, tokenAnalytics, showAnalytics,
                        model, messages, currentGeneratedAppId, chatVisible,
                        refinementMessages, aiSettings, procs, merged>>
    ELSE LET run == [NoRun EXCEPT !.kind = "createApp", !.pc = "generate",
                                  !.prompt = prompt, !.model = model]
         IN  /\ Spawn(run)
             /\ status' = "creating"
             /\ generatedCode' = <<>>
             /\ tokenAnalytics' = NullAnalytics
             /\ merged' = <<>>
             /\ chatVisible' = FALSE
             /\ refinementMessages' = <<>>
             /\ messages' = <<UserMessage(prompt)>>
             /\ Event("createApp", "accepted")
             /\ UNCHANGED <<prompt, showAnalytics, model, currentGeneratedAppId,
                            aiSettings>>

\* Variant: an accepted call that leaves the displayed code as it is.
createAppKeepsCode ==
    IF ~createAppGuard
    THEN /\ Event("createApp", "rejected")
         /\ UNCHANGED <<status, prompt, generatedCode, tokenAnalytics, showAnalytics,
                        model, messages, currentGeneratedAppId, chatVisible,
                        refinementMessages, aiSettings, procs, merged>>
    ELSE LET run == [NoRun EXCEPT !.kind = "createApp", !.pc = "generate",
                                  !.prompt = prompt, !.model = model]
         IN  /\ Spawn(run)
             /\ status' = "creating"
             /\ showAnalytics' = FALSE
             /\ tokenAnalytics' = NullAnalytics
             /\ merged' = <<>>
             /\ chatVisible' = FALSE
             /\ refinementMessages' = <<>>
             /\ messages' = <<UserMessage(prompt)>>
             /\ Event("createApp", "accepted")
             /\ UNCHANGED <<prompt, generatedCode, model, currentGeneratedAppId,
                            aiSettings>>

createApp ==
    IF ~createAppGuard
    THEN /\ Event("createApp", "rejected")
         /\ UNCHANGED <<status, prompt, generatedCode, tokenAnalytics, showAnalytics,
                        model, messages, currentGeneratedAppId, chatVisible,
                        refinementMessages, aiSettings, procs, merged>>
    ELSE LET run == [NoRun EXCEPT !.kind = "createApp", !.pc = "generate",
                                  !.prompt = prompt, !.model = model]
         IN  /\ Spawn(run)
             /\ status' = "creating"
             /\ generatedCode' = <<>>
             /\ showAnalytics' = FALSE
             /\ tokenAnalytics' = NullAnalytics
             /\ merged' = <<>>
             /\ chatVisible' = FALSE
             /\ refinementMessages' = <<>>
             /\ messages' = <<UserMessage(prompt)>>
             /\ Event("createApp", "accepted")
             /\ UNCHANGED <<prompt, model, currentGeneratedAppId, aiSettings>>

\* Variant: a catch that also clears the code of the failed attempt.
createAppCatchClearsCode(r) ==
    /\ status' = "initial"
    /\ generatedCode' = <<>>
    /\ Finish(r)
    /\ UNCHANGED <<prompt, tokenAnalytics, showAnalytics, model, messages,
                   currentGeneratedAppId, chatVisible, refinementMessages,
                   aiSettings, merged>>

\* catch (error) { console.error(...); setStatus("initial"); }
createAppCatch(r) ==
    /\ status' = "initial"
    /\ Finish(r)
    /\ UNCHANGED <<prompt, generatedCode, tokenAnalytics, showAnalytics, model,
                   messages, currentGeneratedAppId, chatVisible, refinementMessages,
                   aiSettings, merged>>

\* the generation request settles: a response with a body, or a rejection,
\* a non-OK status or a missing body
createAppResponse(r) ==
    /\ r.kind = "createApp" /\ r.pc = "generate"
    /\ \/ /\ Resume(r, [r EXCEPT !.pc = "read"])
          /\ Event("createApp", "responseOk")
          /\ UNCHANGED <<status, prompt, generatedCode, tokenAnalytics, showAnalytics,
                         model, messages, currentGeneratedAppId, chatVisible,
                         refinementMessages, aiSettings, merged>>
       \/ /\ createAppCatch(r)
          /\ Event("createApp", "generateFailed")

\* reader.read() settles: a chunk, end of stream (the persistence request is
\* issued in the same segment), or an error
createAppRead(r) ==
    /\ r.kind = "createApp" /\ r.pc = "read"
    /\ \/ \E value \in CodeChunks :
            \E receivedData \in {r.receivedData \o decode(value)} :
                /\ r.reads < MaxChunks
                /\ Resume(r, [r EXCEPT !.receivedData = receivedData,
                                              !.reads = @ + 1])
                /\ generatedCode' = removeCodeFormatting(receivedData)
                /\ Event("createApp", "chunk")
                /\ UNCHANGED <<status, prompt, tokenAnalytics, showAnalytics, model,
                               messages, currentGeneratedAppId, chatVisible,
                               refinementMessages, aiSettings, merged>>
       \/ /\ Resume(r, [r EXCEPT !.pc = "persist"])
          /\ Event("createApp", "streamDone")
          /\ UNCHANGED <<status, prompt, generatedCode, tokenAnalytics, showAnalytics,
                         model, messages, currentGeneratedAppId, chatVisible,
                         refinementMessages, aiSettings, merged>>
       \/ /\ createAppCatch(r)
          /\ Event("createApp", "streamFailed")

\* the body of the request to the generated-app store, as the run r issues it
\* at the end of its stream
PersistRequest(r) ==
    [model |-> r.model, prompt |-> r.prompt, code |-> r.receivedData]

\* the body of the analytics request the run r issues once persisted under id
AnalyticsRequest(r, id) ==
    [model |-> r.model, prompt |-> r.prompt, generatedCode |-> r.receivedData,
     generatedAppId |-> id]

\* Variant: the identifier the store returned is not kept in the session.
createAppPersistedDropsId(r) ==
    /\ r.kind = "createApp" /\ r.pc = "persist"
    /\ \/ \E id \in StoreIds :
            /\ Resume(r, [r EXCEPT !.pc = "analytics",
                                   !.currentGeneratedAppId = id])
            /\ Event("createApp", "persisted")
            /\ UNCHANGED <<status, prompt, generatedCode, tokenAnalytics,
                           showAnalytics, model, messages, currentGeneratedAppId,
                           chatVisible, refinementMessages, aiSettings, merged>>
       \/ /\ createAppCatch(r)
          /\ Event("createApp", "persistFailed")

\* Variant: status set to created as soon as the app is persisted.
createAppPersistedSetsCreated(r) ==
    /\ r.kind = "createApp" /\ r.pc = "persist"
    /\ \/ \E id \in StoreIds :
            /\ currentGeneratedAppId' = id
            /\ status' = "created"
            /\ Resume(r, [r EXCEPT !.pc = "analytics",
                                   !.currentGeneratedAppId = id])
            /\ Event("createApp", "persisted")
            /\ UNCHANGED <<prompt, generatedCode, tokenAnalytics,
                           showAnalytics, model, messages, chatVisible,
                           refinementMessages, aiSettings, merged>>
       \/ /\ createAppCatch(r)
          /\ Event("createApp", "persistFailed")

\* the persistence request settles: an OK response carrying an id (the analytics
\* request is issued in the same segment), or a non-OK response or an error
createAppPersisted(r) ==
    /\ r.kind = "createApp" /\ r.pc = "persist"
    /\ \/ \E id \in StoreIds :
            /\ currentGeneratedAppId' = id
            /\ Resume(r, [r EXCEPT !.pc = "analytics",
                                          !.currentGeneratedAppId = id])
            /\ Event("createApp", "persisted")
            /\ UNCHANGED <<status, prompt, generatedCode, tokenAnalytics,
                           showAnalytics, model, messages, chatVisible,
                           refinementMessages, aiSettings, merged>>
       \/ /\ createAppCatch(r)
          /\ Event("createApp", "persistFailed")

\* the analytics request settles: OK with a body, non-OK, or an error (the request
\* rejected or the body was no JSON)
createAppAnalytics(r) ==
    /\ r.kind = "createApp" /\ r.pc = "analytics"
    /\ \/ \E analytics \in AnalyticsReplies :
            /\ updateTokenAnalytics(analytics)
            /\ status' = "created"
            /\ chatVisible' = TRUE
            /\ Finish(r)
            /\ Event("createApp", "analyticsOk")
            /\ UNCHANGED <<prompt, generatedCode, model, messages,
                           currentGeneratedAppId, refinementMessages, aiSettings>>
       \/ /\ status' = "created"
          /\ chatVisible' = TRUE
          /\ Finish(r)
          /\ Event("createApp", "analyticsNotOk")
          /\ UNCHANGED <<prompt, generatedCode, tokenAnalytics, showAnalytics, model,
                         messages, currentGeneratedAppId, refinementMessages,
                         aiSettings, merged>>
       \/ /\ createAppCatch(r)
          /\ Event("createApp", "analyticsFailed")

(***************************************************************************)
(* handleChatMessage                                                       *)
(***************************************************************************)
\* Variant: the guard without the status test.
handleChatMessageGuardCodeOnly == generatedCode # <<>>

handleChatMessageGuard == generatedCode # <<>> /\ status = "created"

\* the call up to the await of the generation request
handleChatMessage(message) ==
    IF ~handleChatMessageGuard
    THEN /\ Event("handleChatMessage", "rejected")
         /\ UNCHANGED <<status, prompt, generatedCode, tokenAnalytics, showAnalytics,
                        model, messages, currentGeneratedAppId, chatVisible,
                        refinementMessages, aiSettings, procs, merged>>
    ELSE LET run == [NoRun EXCEPT
                        !.kind = "handleChatMessage", !.pc = "generate",
                        !.model = model, !.message = message,
                        !.updatedMessages =
                            Append(refinementMessages, UserMessage(message)),
                        !.generatedCode = generatedCode,
                        !.currentGeneratedAppId = currentGeneratedAppId]
         IN  /\ Spawn(run)
             /\ status' = "updating"
             /\ Event("handleChatMessage", "accepted")
             /\ UNCHANGED <<prompt, generatedCode, tokenAnalytics, showAnalytics,
                            model, messages, currentGeneratedAppId, chatVisible,
                            refinementMessages, aiSettings, merged>>

\* Variant: a catch that only logs and leaves status as it is.
handleChatMessageCatchKeepsStatus(r) ==
    /\ Finish(r)
    /\ UNCHANGED <<status, prompt, generatedCode, tokenAnalytics, showAnalytics,
                   model, messages, currentGeneratedAppId, chatVisible,
                   refinementMessages, aiSettings, merged>>

\* Variant: a catch that puts back the code the call started with.
handleChatMessageCatchRestoresCode(r) ==
    /\ status' = "created"
    /\ generatedCode' = r.generatedCode
    /\ Finish(r)
    /\ UNCHANGED <<prompt, tokenAnalytics, showAnalytics, model, messages,
                   currentGeneratedAppId, chatVisible, refinementMessages,
                   aiSettings, merged>>

\* catch (error) { console.error(...); setStatus("created"); }
handleChatMessageCatch(r) ==
    /\ status' = "created"
    /\ Finish(r)
    /\ UNCHANGED <<prompt, generatedCode, tokenAnalytics, showAnalytics, model,
                   messages, currentGeneratedAppId, chatVisible, refinementMessages,
                   aiSettings, merged>>

handleChatMessageResponse(r) ==
    /\ r.kind = "handleChatMessage" /\ r.pc = "generate"
    /\ \/ /\ Resume(r, [r EXCEPT !.pc = "read"])
          /\ Event("handleChatMessage", "responseOk")
          /\ UNCHANGED <<status, prompt, generatedCode, tokenAnalytics, showAnalytics,
                         model, messages, currentGeneratedAppId, chatVisible,
                         refinementMessages, aiSettings, merged>>
       \/ /\ handleChatMessageCatch(r)
          /\ Event("handleChatMessage", "generateFailed")

\* reader.read() settles: a chunk, end of stream, or an error.  At end of stream
\* the history is committed and status set; the analytics request is issued only
\* with the identifier the call captured.
handleChatMessageRead(r) ==
    /\ r.kind = "handleChatMessage" /\ r.pc = "read"
    /\ \/ \E value \in CodeChunks :
            \E receivedData \in {r.receivedData \o decode(value)} :
                /\ r.reads < MaxChunks
                /\ Resume(r, [r EXCEPT !.receivedData = receivedData,
                                              !.reads = @ + 1])
                /\ generatedCode' = removeCodeFormatting(receivedData)
                /\ Event("handleChatMessage", "chunk")
                /\ UNCHANGED <<status, prompt, tokenAnalytics, showAnalytics, model,
                               messages, currentGeneratedAppId, chatVisible,
                               refinementMessages, aiSettings, merged>>
       \/ /\ refinementMessages' = r.updatedMessages
          /\ status' = "created"
          /\ IF r.currentGeneratedAppId # Null
             THEN Resume(r, [r EXCEPT !.pc = "analytics"])
             ELSE Finish(r)
          /\ Event("handleChatMessage", "streamDone")
          /\ UNCHANGED <<prompt, generatedCode, tokenAnalytics, showAnalytics, model,
                         messages, currentGeneratedAppId, chatVisible, aiSettings,
                         merged>>
       \/ /\ handleChatMessageCatch(r)
          /\ Event("handleChatMessage", "streamFailed")

handleChatMessageAnalytics(r) ==
    /\ r.kind = "handleChatMessage" /\ r.pc = "analytics"
    /\ \/ \E analytics \in AnalyticsReplies :
            /\ updateTokenAnalytics(analytics)
            /\ Finish(r)
            /\ Event("handleChatMessage", "analyticsOk")
            /\ UNCHANGED <<status, prompt, generatedCode, model, messages,
                           currentGeneratedAppId, chatVisible, refinementMessages,
                           aiSettings>>
       \/ /\ Finish(r)
          /\ Event("handleChatMessage", "analyticsNotOk")
          /\ UNCHANGED <<status, prompt, generatedCode, tokenAnalytics, showAnalytics,
                         model, messages, currentGeneratedAppId, chatVisible,
                         refinementMessages, aiSettings, merged>>
       \/ /\ handleChatMessageCatch(r)
          /\ Event("handleChatMessage", "analyticsFailed")

(***************************************************************************)
(* generateAppIdea                                                         *)
(***************************************************************************)
generateAppIdeaGuard == status = "initial"

generateAppIdea ==
    IF ~generateAppIdeaGuard
    THEN /\ Event("generateAppIdea", "rejected")
         /\ UNCHANGED <<status, prompt, generatedCode, tokenAnalytics, showAnalytics,
                        model, messages, currentGeneratedAppId, chatVisible,
                        refinementMessages, aiSettings, procs, merged>>
    ELSE LET run == [NoRun EXCEPT !.kind = "generateAppIdea", !.pc = "generate",
                                  !.model = model]
         IN  /\ Spawn(run)
             /\ status' = "brainstorming"
             /\ Event("generateAppIdea", "accepted")
             /\ UNCHANGED <<prompt, generatedCode, tokenAnalytics, showAnalytics,
                            model, messages, currentGeneratedAppId, chatVisible,
                            refinementMessages, aiSettings, merged>>

\* Variant: no finally block, status is left as it is.
generateAppIdeaNoFinally(r) ==
    /\ UNCHANGED status
    /\ Finish(r)

\* finally { setStatus("initial"); } after the catch logged the error
generateAppIdeaFinally(r) ==
    /\ status' = "initial"
    /\ Finish(r)

generateAppIdeaResponse(r) ==
    /\ r.kind = "generateAppIdea" /\ r.pc = "generate"
    /\ \/ /\ Resume(r, [r EXCEPT !.pc = "read"])
          /\ Event("generateAppIdea", "responseOk")
          /\ UNCHANGED <<status, prompt>>
       \/ /\ generateAppIdeaFinally(r)
          /\ Event("generateAppIdea", "generateFailed")
          /\ UNCHANGED prompt
    /\ UNCHANGED <<generatedCode, tokenAnalytics, showAnalytics, model, messages,
                   currentGeneratedAppId, chatVisible, refinementMessages,
                   aiSettings, merged>>

generateAppIdeaRead(r) ==
    /\ r.kind = "generateAppIdea" /\ r.pc = "read"
    /\ \/ \E value \in TextChunks :
            /\ r.reads < MaxChunks
            /\ Resume(r, [r EXCEPT !.receivedData = @ \o decode(value),
                                      !.reads = @ + 1])
            /\ Event("generateAppIdea", "chunk")
            /\ UNCHANGED <<status, prompt>>
       \/ /\ prompt' = trim(r.receivedData)
          /\ generateAppIdeaFinally(r)
          /\ Event("generateAppIdea", "streamDone")
       \/ /\ generateAppIdeaFinally(r)
          /\ Event("generateAppIdea", "streamFailed")
          /\ UNCHANGED prompt
    /\ UNCHANGED <<generatedCode, tokenAnalytics, showAnalytics, model, messages,
                   currentGeneratedAppId, chatVisible, refinementMessages,
                   aiSettings, merged>>

(***************************************************************************)
(* refinePrompt                                                            *)
(***************************************************************************)
\* Variant: a guard on status only.
refinePromptGuardStatusOnly == status = "initial"

refinePromptGuard == prompt # <<>> /\ status = "initial"

refinePrompt ==
    IF ~refinePromptGuard
    THEN /\ Event("refinePrompt", "rejected")
         /\ UNCHANGED <<status, prompt, generatedCode, tokenAnalytics, showAnalytics,
                        model, messages, currentGeneratedAppId, chatVisible,
                        refinementMessages, aiSettings, procs, merged>>
    ELSE LET run == [NoRun EXCEPT !.kind = "refinePrompt", !.pc = "generate",
                                  !.model = model, !.prompt = prompt]
         IN  /\ Spawn(run)
             /\ status' = "refining"
             /\ Event("refinePrompt", "accepted")
             /\ UNCHANGED <<prompt, generatedCode, tokenAnalytics, showAnalytics,
                            model, messages, currentGeneratedAppId, chatVisible,
                            refinementMessages, aiSettings, merged>>

\* finally { setStatus("initial"); } after the catch logged the error
refinePromptFinally(r) ==
    /\ status' = "initial"
    /\ Finish(r)

refinePromptResponse(r) ==
    /\ r.kind = "refinePrompt" /\ r.pc = "generate"
    /\ \/ /\ Resume(r, [r EXCEPT !.pc = "read"])
          /\ Event("refinePrompt", "responseOk")
          /\ UNCHANGED <<status, prompt>>
       \/ /\ refinePromptFinally(r)
          /\ Event("refinePrompt", "generateFailed")
          /\ UNCHANGED prompt
    /\ UNCHANGED <<generatedCode, tokenAnalytics, showAnalytics, model, messages,
                   currentGeneratedAppId, chatVisible, refinementMessages,
                   aiSettings, merged>>

refinePromptRead(r) ==
    /\ r.kind = "refinePrompt" /\ r.pc = "read"
    /\ \/ \E value \in TextChunks :
            /\ r.reads < MaxChunks
            /\ Resume(r, [r EXCEPT !.receivedData = @ \o decode(value),
                                      !.reads = @ + 1])
            /\ Event("refinePrompt", "chunk")
            /\ UNCHANGED <<status, prompt>>
       \/ /\ prompt' = trim(r.receivedData)
          /\ refinePromptFinally(r)
          /\ Event("refinePrompt", "streamDone")
       \/ /\ refinePromptFinally(r)
          /\ Event("refinePrompt", "streamFailed")
          /\ UNCHANGED prompt
    /\ UNCHANGED <<generatedCode, tokenAnalytics, showAnalytics, model, messages,
                   currentGeneratedAppId, chatVisible, refinementMessages,
                   aiSettings, merged>>

(***************************************************************************)
(* handleLoadGeneration and the view callbacks                             *)
(***************************************************************************)
\* setAISettings(aiSettings) stores the value it read; the effect on
\* [currentProvider] then runs when the loaded model has another provider
handleLoadGeneration(generation) ==
    /\ generatedCode' = generation.code
    /\ prompt' = generation.prompt
    /\ model' = generation.model
    /\ aiSettings' =
           IF currentProvider(generation.model) # currentProvider(model)
           THEN ProviderEffect(aiSettings, currentProvider(generation.model))
           ELSE aiSettings
    /\ currentGeneratedAppId' = generation.id
    /\ status' = "created"
    /\ chatVisible' = TRUE
    /\ Event("handleLoadGeneration", "done")
    /\ UNCHANGED <<tokenAnalytics, showAnalytics, messages, refinementMessages,
                   procs, merged>>

\* the textarea's onChange; the fieldset is disabled while loading
setPrompt(value) ==
    /\ ~loading
    /\ prompt' = value
    /\ Event("setPrompt", "done")
    /\ UNCHANGED <<status, generatedCode, tokenAnalytics, showAnalytics, model,
                   messages, currentGeneratedAppId, chatVisible, refinementMessages,
                   aiSettings, procs, merged>>

\* ChatInterface's onAnalyticsUpdate
onAnalyticsUpdate(analytics) ==
    /\ updateTokenAnalytics(analytics)
    /\ Event("onAnalyticsUpdate", "done")
    /\ UNCHANGED <<status, prompt, generatedCode, model, messages,
                   currentGeneratedAppId, chatVisible, refinementMessages,
                   aiSettings, procs>>

(***************************************************************************)
(* The session: any interleaving of calls and settled awaits.              *)
(***************************************************************************)
Settle(r) ==
    \/ createAppResponse(r)
    \/ createAppRead(r)
    \/ createAppPersisted(r)
    \/ createAppAnalytics(r)
    \/ handleChatMessageResponse(r)
    \/ handleChatMessageRead(r)
    \/ handleChatMessageAnalytics(r)
    \/ generateAppIdeaResponse(r)
    \/ generateAppIdeaRead(r)
    \/ refinePromptResponse(r)
    \/ refinePromptRead(r)

Next ==
    \/ createApp
    \/ \E message \in ChatInputs :
          RefinementsLeft(MaxRefinements) /\ handleChatMessage(message)
    \/ generateAppIdea
    \/ refinePrompt
    \/ \E generation \in SavedGenerationSet : handleLoadGeneration(generation)
    \/ \E value \in UserPrompts : setPrompt(value)
    \/ \E r \in Runs : Settle(r)

Spec == Init /\ [][Next]_vars

\* every request and every read settles: no kind of run waits for ever
SettleKind(kind) == \E r \in Runs : r.kind = kind /\ Settle(r)
FairSpec ==
    /\ Spec
    /\ WF_vars(SettleKind("createApp"))
    /\ WF_vars(SettleKind("handleChatMessage"))
    /\ WF_vars(SettleKind("generateAppIdea"))
    /\ WF_vars(SettleKind("refinePrompt"))

(***************************************************************************)
(* The analytics merge on its own: ChatInterface hands exchanges to        *)
(* onAnalyticsUpdate, starting from no cumulative value.                   *)
(***************************************************************************)
Exchanges ==
    [ modelName : {"claude"}, provider : {"anthropic"}, promptTokens : 0..1,
      responseTokens : 0..1, totalTokens : 0..3, maxTokens : {3, 7},
      utilizationPercentage : {0} ]

MergeNext ==
    /\ Len(merged) < MaxMerges
    /\ \E analytics \in Exchanges : onAnalyticsUpdate(analytics)

MergeSpec == Init /\ [][MergeNext]_vars

(***************************************************************************)
(* The settings on their own: the page mounts with the first enabled       *)
(* provider's first model, the user picks models in the Select and edits   *)
(* fields in AISettingsPanel.                                              *)
(***************************************************************************)
\* groupedModels[0]?.models[0]?.value of a provider
FirstModel(provider) == CHOOSE m \in AI_PROVIDERS[provider] : TRUE

\* the state after construction when provider is the first enabled one
SettingsInit ==
    /\ status = "initial"
    /\ prompt = <<>>
    /\ generatedCode = <<>>
    /\ tokenAnalytics = NullAnalytics
    /\ showAnalytics = FALSE
    /\ \E provider \in Providers :
          /\ model = FirstModel(provider)
          /\ aiSettings = getDefaultSettings(provider)
    /\ messages = <<>>
    /\ currentGeneratedAppId = Null
    /\ chatVisible = FALSE
    /\ refinementMessages = <<>>
    /\ procs = EmptyBag
    /\ lastEvent = [op |-> "mount", step |-> "done"]
    /\ merged = <<>>

\* Select's onValueChange={setModel}; the effect on [currentProvider] runs when
\* the provider differs.  The step is recorded with the provider left behind.
setModel(value) ==
    /\ ~loading
    /\ model' = value
    /\ aiSettings' =
           IF currentProvider(value) # currentProvider(model)
           THEN ProviderEffect(aiSettings, currentProvider(value))
           ELSE aiSettings
    /\ Event("setModel", currentProvider(model))
    /\ UNCHANGED <<status, prompt, generatedCode, tokenAnalytics, showAnalytics,
                   messages, currentGeneratedAppId, chatVisible, refinementMessages,
                   procs, merged>>

\* what the user can hand back from the panel: the settings with one field edited
SettingsEdits(prev) ==
    { [prev EXCEPT !.temperature = 3], [prev EXCEPT !.maxTokens = 1000],
      [prev EXCEPT !.topP = 0], [prev EXCEPT !.streamOutput = FALSE],
      [prev EXCEPT !.frequencyPenalty = 1], [prev EXCEPT !.presencePenalty = 1] }

\* AISettingsPanel's onSettingsChange={setAISettings}
onSettingsChange(settings) ==
    /\ aiSettings' = settings
    /\ Event("onSettingsChange", "done")
    /\ UNCHANGED <<status, prompt, generatedCode, tokenAnalytics, showAnalytics,
                   model, messages, currentGeneratedAppId, chatVisible,
                   refinementMessages, procs, merged>>

SettingsNext ==
    \/ \E value \in Models : setModel(value)
    \/ \E settings \in SettingsEdits(aiSettings) : onSettingsChange(settings)

SettingsSpec == SettingsInit /\ [][SettingsNext]_vars

(***************************************************************************)
(* One creation with a definite response body: the endpoint answers with a *)
(* fenced block, and the reader hands its bytes over in chunks cut         *)
(* anywhere.                                                               *)
(***************************************************************************)
\* well-formed fenced blocks: an optional language tag and the inner bytes
FencedBlocks ==
    [ tag : { <<>>, <<"t","s","x">> },
      inner : { <<"a", NL>>, <<"C3", "A9">> } ]

Body(block) == Fence \o block.tag \o <<NL>> \o block.inner \o Fence

\* the generation request settles with a body; the run holds the reader, i.e.
\* the bytes not yet read
StreamResponse(r) ==
    /\ r.kind = "createApp" /\ r.pc = "generate"
    /\ \E block \in FencedBlocks :
          Resume(r, [r EXCEPT !.pc = "read"]
                      @@ [block |-> block, pending |-> Body(block)])
    /\ Event("createApp", "responseOk")
    /\ UNCHANGED <<status, prompt, generatedCode, tokenAnalytics, showAnalytics,
                   model, messages, currentGeneratedAppId, chatVisible,
                   refinementMessages, aiSettings, merged>>

\* reader.read() settles: the next chunk, of any length, or end of stream
StreamRead(r) ==
    /\ r.kind = "createApp" /\ r.pc = "read"
    /\ \/ \E n \in 1..Len(r.pending) :
            \E receivedData \in {r.receivedData \o decode(SubSeq(r.pending, 1, n))} :
                /\ Resume(r, [r EXCEPT !.receivedData = receivedData,
                                       !.reads = @ + 1,
                                       !.pending = SubSeq(@, n + 1, Len(@))])
                /\ generatedCode' = removeCodeFormatting(receivedData)
                /\ Event("createApp", "chunk")
                /\ UNCHANGED <<status, prompt, tokenAnalytics, showAnalytics, model,
                               messages, currentGeneratedAppId, chatVisible,
                               refinementMessages, aiSettings, merged>>
       \/ /\ r.pending = <<>>
          /\ Resume(r, [r EXCEPT !.pc = "persist"])
          /\ Event("createApp", "streamDone")
          /\ UNCHANGED <<status, prompt, generatedCode, tokenAnalytics, showAnalytics,
                         model, messages, currentGeneratedAppId, chatVisible,
                         refinementMessages, aiSettings, merged>>

StreamNext ==
    \/ \E value \in UserPrompts : setPrompt(value)
    \/ createApp
    \/ \E r \in Runs : StreamResponse(r)
    \/ \E r \in Runs : StreamRead(r)
    \/ \E r \in Runs : createAppPersisted(r)
    \/ \E r \in Runs : createAppAnalytics(r)

StreamSpec == Init /\ [][StreamNext]_vars

(***************************************************************************)
(* Refinements of a loaded generation: handleLoadGeneration and            *)
(* handleChatMessage calls with the awaits of the refinement runs.         *)
(***************************************************************************)
RefineNext ==
    \/ \E generation \in SavedGenerationSet : handleLoadGeneration(generation)
    \/ \E message \in ChatInputs :
          RefinementsLeft(MaxRefineCalls) /\ handleChatMessage(message)
    \/ \E r \in Runs : handleChatMessageResponse(r)
    \/ \E r \in Runs : handleChatMessageRead(r)
    \/ \E r \in Runs : handleChatMessageAnalytics(r)

RefineSpec == Init /\ [][RefineNext]_vars

(***************************************************************************)
(* Properties.                                                             *)
(***************************************************************************)
FailureSteps == {"generateFailed", "streamFailed", "persistFailed", "analyticsFailed"}

\* this step is the run r of handler op ending in its catch
FailedStep(r, op) ==
    /\ r.kind = op
    /\ lastEvent'.op = op
    /\ lastEvent'.step \in FailureSteps
    /\ procs' = procs (-) SetToBag({r})

\* this step is a call of handler op
CallStep(op) ==
    /\ lastEvent'.op = op
    /\ lastEvent'.step \in {"rejected", "accepted"}

\* the suspended runs of the generation and refinement pipelines
PipelinesInFlight ==
    LET pipelines == { r \in Runs : r.kind \in {"createApp", "handleChatMessage"} }
    IN  BagCardinality([r \in pipelines |-> procs[r]])

\* C1: at most one network-driving handler has a request outstanding; in
\* particular no two generation/refinement pipelines (createApp,
\* handleChatMessage) are in flight at the same time.  Stated in the particular
\* form, which the general one implies.
C1_NoTwoPipelinesInFlight == PipelinesInFlight <= 1

\* C2: a createApp call made while status is not initial starts no run (issues
\* no request) and leaves every session field as it was.
C2_CreateAppEntryGuard ==
    [][ (CallStep("createApp") /\ status # "initial")
        => UNCHANGED <<status, generatedCode, prompt, tokenAnalytics, showAnalytics,
                       chatVisible, messages, refinementMessages,
                       currentGeneratedAppId, model, aiSettings, procs>> ]_vars

C2_Witness ==
    /\ lastEvent = [op |-> "createApp", step |-> "rejected"]
    /\ status # "initial"
    /\ prompt # <<>>

\* C3: a handleChatMessage call made while status is not created, or while the
\* generated code is empty, starts no run and leaves status, code, refinement
\* history and analytics as they were.
C3_ChatEntryGuard ==
    [][ (CallStep("handleChatMessage") /\ (status # "created" \/ generatedCode = <<>>))
        => UNCHANGED <<status, generatedCode, refinementMessages, tokenAnalytics,
                       showAnalytics, procs>> ]_vars

C3_Witness ==
    /\ lastEvent = [op |-> "handleChatMessage", step |-> "rejected"]
    /\ status = "created"
    /\ generatedCode = <<>>

\* C4 as claimed: when a createApp run fails, status is initial again and the
\* displayed code does not hold the chunks the failed run streamed.
C4_FailedCreationDiscardsCode ==
    [][ \A r \in Runs :
          FailedStep(r, "createApp")
          => /\ status' = "initial"
             /\ (removeCodeFormatting(r.receivedData) # <<>>
                 => generatedCode' # removeCodeFormatting(r.receivedData)) ]_vars

\* C4 as amended: when a createApp run fails, status is initial again and the
\* displayed code is left as it was at the failure (nothing is rolled back).
C4_FailedCreationKeepsCode ==
    [][ \A r \in Runs :
          FailedStep(r, "createApp")
          => status' = "initial" /\ generatedCode' = generatedCode ]_vars

C4_Witness ==
    /\ lastEvent = [op |-> "createApp", step |-> "streamFailed"]
    /\ status = "initial"
    /\ \E value \in CodeChunks : generatedCode = removeCodeFormatting(decode(value))
    /\ generatedCode # <<>>

C6_PersistFailureLeavesNoId ==
    [][ \A r \in Runs :
          (FailedStep(r, "createApp") /\ lastEvent'.step = "persistFailed")
          => /\ status' = "initial"
             /\ currentGeneratedAppId' = Null
             /\ \A r2 \in BagToSet(procs') : r2.pc = "analytics" => r2 \in Runs ]_vars

\* C7: within a createApp run the persistence request is issued only at end of
\* stream, the analytics request only when persistence has returned an
\* identifier (which the session then holds), and the run sets status to created
\* only when it handles the analytics response.
C7_CreationStepsInOrder ==
    [][ /\ \A r2 \in BagToSet(procs') :
             (r2.kind = "createApp" /\ r2.pc = "persist" /\ r2 \notin Runs)
             => /\ lastEvent' = [op |-> "createApp", step |-> "streamDone"]
                /\ [r2 EXCEPT !.pc = "read"] \in Runs
        /\ \A r2 \in BagToSet(procs') :
             (r2.kind = "createApp" /\ r2.pc = "analytics" /\ r2 \notin Runs)
             => /\ lastEvent' = [op |-> "createApp", step |-> "persisted"]
                /\ [r2 EXCEPT !.pc = "persist", !.currentGeneratedAppId = Null] \in Runs
                /\ r2.currentGeneratedAppId # Null
                /\ currentGeneratedAppId' = r2.currentGeneratedAppId
        /\ (lastEvent'.op = "createApp" /\ status' = "created" /\ status # "created")
             => /\ lastEvent'.step \in {"analyticsOk", "analyticsNotOk"}
                /\ \E r \in Runs : /\ r.kind = "createApp" /\ r.pc = "analytics"
                                   /\ procs' = procs (-) SetToBag({r}) ]_vars

C7_Witness ==
    /\ lastEvent = [op |-> "createApp", step |-> "analyticsOk"]
    /\ status = "created"
    /\ currentGeneratedAppId \in StoreIds
    /\ tokenAnalytics # NullAnalytics

\* C8: every accepted generateAppIdea or refinePrompt run ends by setting status
\* to initial, on success and on failure alike, and status does not stay
\* brainstorming or refining for ever (every request and read settling).
PromptAssistEnded(kind) ==
    /\ lastEvent.op = kind
    /\ lastEvent.step \in {"streamDone", "generateFailed", "streamFailed"}
    /\ status = "initial"

C8_PromptAssistEndsInitial ==
    /\ (\E r \in Runs : r.kind = "generateAppIdea")
         ~> PromptAssistEnded("generateAppIdea")
    /\ (\E r \in Runs : r.kind = "refinePrompt")
         ~> PromptAssistEnded("refinePrompt")
    /\ (status \in {"brainstorming", "refining"}) ~> (status = "initial")

C8_Witness ==
    /\ lastEvent = [op |-> "generateAppIdea", step |-> "streamFailed"]
    /\ status = "initial"
    /\ procs = EmptyBag

\* C9 as claimed: merging A into no cumulative value and then B gives
\* cumulativeTotalTokens = A.totalTokens + B.totalTokens.
C9_TotalIsSumOfTotals ==
    Len(merged) = 2
    => tokenAnalytics.cumulativeTotalTokens
         = merged[1].totalTokens + merged[2].totalTokens

\* C9 as amended: it gives cumulativeTotalTokens = (A.promptTokens +
\* B.promptTokens) + (A.responseTokens + B.responseTokens), which is
\* A.totalTokens + B.totalTokens whenever each exchange's totalTokens is its
\* promptTokens + responseTokens.
C9_TotalIsSumOfComponents ==
    Len(merged) = 2
    => LET A == merged[1]
           B == merged[2]
       IN  /\ tokenAnalytics.cumulativeTotalTokens
                = (A.promptTokens + B.promptTokens)
                  + (A.responseTokens + B.responseTokens)
           /\ (/\ A.totalTokens = A.promptTokens + A.responseTokens
               /\ B.totalTokens = B.promptTokens + B.responseTokens)
              => tokenAnalytics.cumulativeTotalTokens = A.totalTokens + B.totalTokens

C9_Witness ==
    /\ Len(merged) = 2
    /\ merged[1].totalTokens = merged[1].promptTokens + merged[1].responseTokens
    /\ merged[2].totalTokens = merged[2].promptTokens + merged[2].responseTokens
    /\ merged[1].totalTokens > merged[2].totalTokens
    /\ merged[2].totalTokens > 0
    /\ lastEvent.op = "onAnalyticsUpdate"

\* C10: merging A into no cumulative value gives cumulative prompt, response
\* and total tokens equal to A's own, and a utilization that is the hundredth
\* nearest to A.totalTokens / A.maxTokens * 100.
C10_FirstMerge ==
    Len(merged) = 1
    => LET A == merged[1]
           u == tokenAnalytics.utilizationPercentage
       IN  /\ tokenAnalytics.cumulativePromptTokens = A.promptTokens
           /\ tokenAnalytics.cumulativeResponseTokens = A.responseTokens
           /\ tokenAnalytics.cumulativeTotalTokens = A.totalTokens
           /\ tokenAnalytics.totalTokens = A.totalTokens
           /\ tokenAnalytics.maxTokens = A.maxTokens
           /\ 2 * u * A.maxTokens <= 20000 * A.totalTokens + A.maxTokens
           /\ 20000 * A.totalTokens + A.maxTokens < 2 * (u + 1) * A.maxTokens

C10_Witness ==
    /\ Len(merged) = 1
    /\ merged[1].totalTokens = 2
    /\ merged[1].maxTokens = 3
    /\ tokenAnalytics.utilizationPercentage = 6667
    /\ showAnalytics

\* this step is the selected model's provider changing
ProviderChangeStep ==
    /\ lastEvent'.op = "setModel"
    /\ currentProvider(model') # currentProvider(model)

\* C11: getDefaultSettings gives temperature 0.0 for deepseek and 0.7 otherwise;
\* maxTokens 200000 / 64000 / 1000000 / 32768 for anthropic / openai / google /
\* deepseek and 200000 for any other provider; topP 1, streamOutput true, both
\* penalties 0.  Read off the settings the page mounts with.
C11_DefaultSettings ==
    lastEvent.op = "mount"
    => LET provider == currentProvider(model)
       IN  /\ (provider = "deepseek" => aiSettings.temperature = 0)
           /\ (provider # "deepseek" => aiSettings.temperature = 7)
           /\ (provider = "anthropic" => aiSettings.maxTokens = 200000)
           /\ (provider = "openai" => aiSettings.maxTokens = 64000)
           /\ (provider = "google" => aiSettings.maxTokens = 1000000)
           /\ (provider = "deepseek" => aiSettings.maxTokens = 32768)
           /\ (provider \notin {"anthropic", "openai", "google", "deepseek"}
                 => aiSettings.maxTokens = 200000)
           /\ aiSettings.topP = 1
           /\ aiSettings.streamOutput = TRUE
           /\ aiSettings.frequencyPenalty = 0
           /\ aiSettings.presencePenalty = 0

C11_Witness ==
    /\ lastEvent.op = "mount"
    /\ currentProvider(model) = "mistral"
    /\ aiSettings.maxTokens = 200000
    /\ aiSettings.temperature = 7

\* C12: a change of the selected model's provider leaves topP, streamOutput,
\* frequencyPenalty and presencePenalty as they were; from openai to google
\* maxTokens becomes 1000000.
C12_ProviderChangeKeepsOtherFields ==
    [][ ProviderChangeStep
        => /\ aiSettings'.topP = aiSettings.topP
           /\ aiSettings'.streamOutput = aiSettings.streamOutput
           /\ aiSettings'.frequencyPenalty = aiSettings.frequencyPenalty
           /\ aiSettings'.presencePenalty = aiSettings.presencePenalty
           /\ (currentProvider(model') = "google" => aiSettings'.maxTokens = 1000000) ]_vars

C12_Witness ==
    /\ lastEvent = [op |-> "setModel", step |-> "openai"]
    /\ currentProvider(model) = "google"
    /\ aiSettings.maxTokens = 1000000
    /\ aiSettings.topP = 0
    /\ aiSettings.streamOutput = FALSE

\* C13: when the selected model's provider changes, maxTokens and temperature
\* both become those of getDefaultSettings(new provider); while the provider
\* stays the same a user-edited temperature is kept.
C13_ProviderChangeResetsBoth ==
    [][ /\ ProviderChangeStep
          => /\ aiSettings'.maxTokens
                   = getDefaultSettings(currentProvider(model')).maxTokens
             /\ aiSettings'.temperature
                   = getDefaultSettings(currentProvider(model')).temperature
        /\ (lastEvent'.op = "setModel" /\ ~ProviderChangeStep)
          => aiSettings'.temperature = aiSettings.temperature ]_vars

\* C14: however the bytes of a single well-formed fenced block are cut into
\* chunks, the code displayed after the last chunk is the block's inner content,
\* trimmed, and a creation that succeeds ends at status created.
C14_ChunkSplitIndependence ==
    /\ \A r \in Runs :
          (r.kind = "createApp" /\ r.pc \in {"read", "persist", "analytics"}
             /\ r.pending = <<>>)
          => generatedCode = trim(decode(r.block.inner))
    /\ (lastEvent.op = "createApp" /\ lastEvent.step \in {"analyticsOk", "analyticsNotOk"})
          => status = "created"

\* this step is the run r of handler op taking the named step
RunStep(r, op, step) ==
    /\ r.kind = op
    /\ lastEvent' = [op |-> op, step |-> step]
    /\ r \notin BagToSet(procs') \/ procs'[r] < procs[r]

\* C15: a handleChatMessage run that fails leaves the committed refinement
\* history as it is, and one that reaches the end of its stream appends exactly
\* one user message, the chat input, to the committed history.
C15_HistoryExtendedByOne ==
    [][ \A r \in Runs :
          /\ FailedStep(r, "handleChatMessage")
               => refinementMessages' = refinementMessages
          /\ RunStep(r, "handleChatMessage", "streamDone")
               => refinementMessages'
                    = Append(refinementMessages, UserMessage(r.message)) ]_vars

\* C16: when the analytics request of a createApp or handleChatMessage run
\* fails (a non-OK response, or the request erroring), the cumulative analytics
\* stay as they are and the run ends as a run whose analytics succeeded does:
\* status created, and for a creation the chat visible and the persisted
\* identifier kept.
C16_AnalyticsFailureIgnored ==
    [][ \A r \in Runs : \A step \in {"analyticsNotOk", "analyticsFailed"} :
          /\ RunStep(r, "createApp", step)
               => /\ tokenAnalytics' = tokenAnalytics
                  /\ status' = "created"
                  /\ chatVisible' = TRUE
                  /\ currentGeneratedAppId' = currentGeneratedAppId
          /\ RunStep(r, "handleChatMessage", step)
               => /\ tokenAnalytics' = tokenAnalytics
                  /\ status' = "created" ]_vars

\* text without its leading, resp. trailing, white space
TrimmedLeft(text) ==
    IF \A i \in 1..Len(text) : text[i] \in WhiteSpace THEN <<>>
    ELSE SubSeq(text, CHOOSE i \in 1..Len(text) :
                        /\ text[i] \notin WhiteSpace
                        /\ \A j \in 1..(i - 1) : text[j] \in WhiteSpace,
                Len(text))
TrimmedRight(text) ==
    IF \A i \in 1..Len(text) : text[i] \in WhiteSpace THEN <<>>
    ELSE SubSeq(text, 1, CHOOSE i \in 1..Len(text) :
                           /\ text[i] \notin WhiteSpace
                           /\ \A j \in (i + 1)..Len(text) : text[j] \in WhiteSpace)

\* the last step was the last one of a createApp or handleChatMessage run: a
\* failure step, the settling of the analytics request, or the end of the
\* stream of a refinement that issues no analytics request
PipelineEnded(kind) ==
    /\ lastEvent.op = kind
    /\ \/ lastEvent.step \in FailureSteps \cup {"analyticsOk", "analyticsNotOk"}
       \/ /\ kind = "handleChatMessage"
          /\ lastEvent.step = "streamDone"
          /\ ~\E r \in Runs : r.kind = kind /\ r.pc = "analytics"

\* C17: with every request and read settling, status creating leads to initial
\* or created and status updating leads to created, whatever the outcome of
\* each network step; a createApp or handleChatMessage run in flight leads to
\* its own last step, a failure being one of these and ending the run.
C17_PipelinesEnd ==
    /\ (status = "creating") ~> (status \in {"initial", "created"})
    /\ (status = "updating") ~> (status = "created")
    /\ (\E r \in Runs : r.kind = "createApp") ~> PipelineEnded("createApp")
    /\ (\E r \in Runs : r.kind = "handleChatMessage")
         ~> PipelineEnded("handleChatMessage")

C17_Witness ==
    /\ lastEvent = [op |-> "handleChatMessage", step |-> "generateFailed"]
    /\ status = "created"
    /\ procs = EmptyBag

\* C18: merging an exchange into a non-null cumulative value adds its prompt
\* and response tokens to the cumulative ones, makes the cumulative total the
\* sum of the two, takes the utilization from the new cumulative total against
\* the incoming maxTokens, and takes the other fields from the incoming exchange.
C18_MergeIntoCumulative ==
    [][ (lastEvent'.op = "onAnalyticsUpdate" /\ tokenAnalytics # NullAnalytics)
        => LET previous == tokenAnalytics
               incoming == merged'[Len(merged')]
               result   == tokenAnalytics'
               u        == result.utilizationPercentage
           IN  /\ result.cumulativePromptTokens
                    = previous.cumulativePromptTokens + incoming.promptTokens
               /\ result.cumulativeResponseTokens
                    = previous.cumulativeResponseTokens + incoming.responseTokens
               /\ result.cumulativeTotalTokens
                    = result.cumulativePromptTokens + result.cumulativeResponseTokens
               /\ 2 * u * incoming.maxTokens
                    <= 20000 * result.cumulativeTotalTokens + incoming.maxTokens
               /\ 20000 * result.cumulativeTotalTokens + incoming.maxTokens
                    < 2 * (u + 1) * incoming.maxTokens
               /\ result.modelName = incoming.modelName
               /\ result.provider = incoming.provider
               /\ result.promptTokens = incoming.promptTokens
               /\ result.responseTokens = incoming.responseTokens
               /\ result.totalTokens = incoming.totalTokens
               /\ result.maxTokens = incoming.maxTokens ]_vars

C18_Witness ==
    /\ Len(merged) = 2
    /\ lastEvent.op = "onAnalyticsUpdate"
    /\ merged[1].maxTokens = 3 /\ merged[2].maxTokens = 7
    /\ merged[1].promptTokens = 1 /\ merged[2].responseTokens = 1
    /\ tokenAnalytics.cumulativeTotalTokens = 2
    /\ tokenAnalytics.utilizationPercentage = 2857

\* C19: an accepted createApp call sets status creating, empties the code,
\* hides the analytics panel, nulls the cumulative analytics, hides the chat,
\* empties the refinement history and makes the conversation the one user
\* message holding the prompt, with only its first request outstanding; prompt,
\* model and settings stay as they are.
C19_CreateAppResets ==
    [][ lastEvent' = [op |-> "createApp", step |-> "accepted"]
        => /\ status' = "creating"
           /\ generatedCode' = <<>>
           /\ showAnalytics' = FALSE
           /\ tokenAnalytics' = NullAnalytics
           /\ chatVisible' = FALSE
           /\ refinementMessages' = <<>>
           /\ messages' = <<UserMessage(prompt)>>
           /\ UNCHANGED <<prompt, model, aiSettings>>
           /\ \E run \in BagToSet(procs') :
                 /\ run.kind = "createApp" /\ run.pc = "generate"
                 /\ procs' = procs (+) SetToBag({run}) ]_vars

C19_Witness ==
    /\ lastEvent = [op |-> "createApp", step |-> "accepted"]
    /\ status = "creating"
    /\ currentGeneratedAppId \in StoreIds
    /\ generatedCode = <<>>
    /\ tokenAnalytics = NullAnalytics
    /\ messages = <<UserMessage(prompt)>>

\* C20: a generateAppIdea call with status not initial, and a refinePrompt call
\* with status not initial or an empty prompt, change nothing; a run that
\* reaches the end of its stream sets the prompt to the trimmed text of its
\* chunks, and a run that fails leaves the prompt as it is.
C20_PromptAssist ==
    [][ /\ (CallStep("generateAppIdea") /\ status # "initial")
             => UNCHANGED <<status, prompt, generatedCode, tokenAnalytics,
                            showAnalytics, model, messages, currentGeneratedAppId,
                            chatVisible, refinementMessages, aiSettings, procs>>
        /\ (CallStep("refinePrompt") /\ (status # "initial" \/ prompt = <<>>))
             => UNCHANGED <<status, prompt, generatedCode, tokenAnalytics,
                            showAnalytics, model, messages, currentGeneratedAppId,
                            chatVisible, refinementMessages, aiSettings, procs>>
        /\ \A r \in Runs : \A kind \in {"generateAppIdea", "refinePrompt"} :
             /\ RunStep(r, kind, "streamDone")
                  => \E text \in {r.receivedData} :
                       /\ prompt' = SubSeq(text, 1 + Len(text) - Len(TrimmedLeft(text)),
                                           Len(TrimmedRight(text)))
                       /\ (text # <<>> /\ prompt # <<>>) => prompt' # prompt \o text
             /\ FailedStep(r, kind) => prompt' = prompt ]_vars

C20_Witness ==
    /\ lastEvent = [op |-> "refinePrompt", step |-> "streamDone"]
    /\ status = "initial"
    /\ \E value \in TextChunks : prompt = <<value[Len(value)]>>

\* C21: at the end of a creation's stream the code sent to the generated-app
\* store is the final code of the run, the fence-stripped accumulated stream
\* that the run displayed, sent with the prompt and model of the generation
\* request; the analytics request issued once the app is persisted carries the
\* same code.
C21_PersistedCodeIsDisplayedCode ==
    [][ \A r \in Runs :
          /\ RunStep(r, "createApp", "streamDone")
               => /\ PersistRequest(r).code = removeCodeFormatting(r.receivedData)
                  /\ PersistRequest(r).prompt = r.prompt
                  /\ PersistRequest(r).model = r.model
          /\ RunStep(r, "createApp", "persisted")
               => \A id \in StoreIds :
                     AnalyticsRequest(r, id).generatedCode
                         = removeCodeFormatting(r.receivedData) ]_vars

\* C22: whenever status is created or updating a generated-app identifier is
\* set, and a refinement that reaches the end of its stream holds an identifier
\* and goes on to its analytics request.
C22_CreatedHasIdentifier ==
    [][ /\ status' \in {"created", "updating"} => currentGeneratedAppId' # Null
        /\ \A r \in Runs :
             RunStep(r, "handleChatMessage", "streamDone")
               => /\ r.currentGeneratedAppId # Null
                  /\ procs' = (procs (-) SetToBag({r}))
                                 (+) SetToBag({[r EXCEPT !.pc = "analytics"]}) ]_vars

C22_Witness ==
    /\ lastEvent = [op |-> "handleChatMessage", step |-> "streamDone"]
    /\ status = "created"
    /\ currentGeneratedAppId \in StoreIds
    /\ \E r \in Runs : r.kind = "handleChatMessage" /\ r.pc = "analytics"
    /\ messages # <<>>

\* C23: in every state the analytics panel is shown only when cumulative
\* analytics exist.
C23_PanelShownOnlyWithAnalytics ==
    showAnalytics => tokenAnalytics # NullAnalytics

C23_Witness ==
    /\ showAnalytics
    /\ tokenAnalytics # NullAnalytics
    /\ lastEvent = [op |-> "handleChatMessage", step |-> "analyticsOk"]
    /\ \E r \in Runs : r.kind = "createApp"

====
